---- MODULE Spec2Model ----
(***************************************************************************)
(* Model of SentimentScope: the tiered sentiment analyzer                  *)
(* (backend/ml_utils/sentiment_analyzer.py) and the HTTP server that       *)
(* calls it (backend/server.py).                                           *)
(*                                                                         *)
(* Text is a sequence of one-character strings.  Probabilities and scores  *)
(* are integers in hundredths (0.33 is 33, 0.05 is 5).                     *)
(***************************************************************************)
EXTENDS Integers, Sequences, FiniteSets, TLC

(***************************************************************************)
(* Bounds                                                                  *)
(***************************************************************************)
NumRequests == 2

Requests == 1..NumRequests

(***************************************************************************)
(* Characters.  "E'" stands for a non-ASCII letter (e with acute accent),  *)
(* "FIRE" for the fire emoji (demojized name "fire"), "NBSP" for a         *)
(* non-ASCII whitespace character.                                         *)
(***************************************************************************)
LowerLetters == {"a", "b", "e", "f", "g", "h", "i", "l", "m", "n", "o",
                 "p", "r", "s", "t", "w", "z"}

UpperLetters == {"H", "L"}

Digits == {"1"}

KeptPunct == {"!", "?", ".", ","}

AsciiSpace == {" ", "\t"}

WhiteSpace == AsciiSpace \cup {"NBSP"}

NonAsciiLetters == {"E'"}

Emojis == {"FIRE"}

AsciiChars == LowerLetters \cup UpperLetters \cup Digits \cup KeptPunct
                \cup AsciiSpace \cup {"@", "#", "_", ":", "/"}

\* str.isascii
isascii(text) == \A i \in 1..Len(text) : text[i] \in AsciiChars

\* the regex class \w (Unicode aware for str patterns)
WordChar(c) == c \in LowerLetters \cup UpperLetters \cup Digits
                      \cup NonAsciiLetters \cup {"_"}

\* str.strip() leaves nothing
IsBlank(text) == \A i \in 1..Len(text) : text[i] \in WhiteSpace

NonSpace(c) == c \notin WhiteSpace

IsSpace(c) == c \in WhiteSpace

\* the rest of s after its leading run of \S characters
RECURSIVE DropNonSpace(_)
DropNonSpace(s) ==
    IF s # <<>> /\ NonSpace(Head(s)) THEN DropNonSpace(Tail(s)) ELSE s

\* the rest of s after its leading run of \s characters
RECURSIVE DropSpace(_)
DropSpace(s) ==
    IF s # <<>> /\ IsSpace(Head(s)) THEN DropSpace(Tail(s)) ELSE s

\* the rest of s after its leading run of \w characters
RECURSIVE DropWordChars(_)
DropWordChars(s) ==
    IF s # <<>> /\ WordChar(Head(s)) THEN DropWordChars(Tail(s)) ELSE s

HasPrefix(s, p) == Len(s) >= Len(p) /\ SubSeq(s, 1, Len(p)) = p

\* str.lower
LowerChar(c) == CASE c = "H" -> "h"
                  [] c = "L" -> "l"
                  [] OTHER -> c

lower(text) == [i \in 1..Len(text) |-> LowerChar(text[i])]

\* re.sub(r'http\S+|www\S+', '', text)
RECURSIVE StripUrls(_)
StripUrls(s) ==
    IF s = <<>> THEN <<>>
    ELSE IF HasPrefix(s, <<"h", "t", "t", "p">>) /\ Len(s) > 4 /\ NonSpace(s[5])
    THEN StripUrls(DropNonSpace(SubSeq(s, 5, Len(s))))
    ELSE IF HasPrefix(s, <<"w", "w", "w">>) /\ Len(s) > 3 /\ NonSpace(s[4])
    THEN StripUrls(DropNonSpace(SubSeq(s, 4, Len(s))))
    ELSE <<Head(s)>> \o StripUrls(Tail(s))

\* re.sub(r'@\w+', '', text)
RECURSIVE StripMentions(_)
StripMentions(s) ==
    IF s = <<>> THEN <<>>
    ELSE IF Head(s) = "@" /\ Len(s) > 1 /\ WordChar(s[2])
    THEN StripMentions(DropWordChars(Tail(s)))
    ELSE <<Head(s)>> \o StripMentions(Tail(s))

\* emoji.demojize(text, delimiters=(' ', ' '))
RECURSIVE demojize(_)
demojize(s) ==
    IF s = <<>> THEN <<>>
    ELSE IF Head(s) = "FIRE"
    THEN <<" ", "f", "i", "r", "e", " ">> \o demojize(Tail(s))
    ELSE <<Head(s)>> \o demojize(Tail(s))

\* str.split(): the whitespace-delimited tokens
RECURSIVE split(_)
split(s) ==
    LET t == DropSpace(s)
        rest == DropNonSpace(t)
    IN IF t = <<>> THEN <<>>
       ELSE <<SubSeq(t, 1, Len(t) - Len(rest))>> \o split(rest)

\* ' '.join(words)
RECURSIVE join(_)
join(words) ==
    IF words = <<>> THEN <<>>
    ELSE IF Len(words) = 1 THEN words[1]
    ELSE words[1] \o <<" ">> \o join(Tail(words))

\* SENTIMENT_FLIPS.get(word, word), for the keys 'lit', 'fire' and 'goat' (the
\* other eight keys of the table behave alike and are not in the alphabet)
SENTIMENT_FLIPS(word) ==
    CASE word = <<"l", "i", "t">> -> <<"a", "m", "a", "z", "i", "n", "g">>
      [] word = <<"f", "i", "r", "e">> -> <<"a", "m", "a", "z", "i", "n", "g">>
      [] word = <<"g", "o", "a", "t">> -> <<"b", "e", "s", "t">>
      [] OTHER -> word

\* re.sub(r'[^a-zA-Z0-9\s!?.,]', '', text)
Supported(c) == c \in LowerLetters \cup UpperLetters \cup Digits
                       \cup KeptPunct \cup WhiteSpace

StripUnsupported(s) == SelectSeq(s, Supported)

\* SentimentAnalyzer.clean_text
clean_text(text) ==
    IF IsBlank(text) THEN <<>>
    ELSE LET t1 == lower(text)
             t2 == StripUrls(t1)
             t3 == StripMentions(t2)
             t4 == demojize(t3)
             words == split(t4)
             normalized_words == [i \in 1..Len(words) |-> SENTIMENT_FLIPS(words[i])]
             t5 == join(normalized_words)
             t6 == StripUnsupported(t5)
         IN  join(split(t6))

(***************************************************************************)
(* The external collaborators' answers.  A call either raises or returns.  *)
(***************************************************************************)
\* class probabilities (neg, neu, pos) of the neural and classical models
ProbGrid == {0, 30, 40, 70, 90}

Probs == [neg : ProbGrid, neu : ProbGrid, pos : ProbGrid]

Raise == [ok |-> FALSE]

ModelOutcomes == {Raise} \cup {[ok |-> TRUE, probs |-> p] : p \in Probs}

\* polarity_scores of the lexicon analyzer
CompoundGrid == {-20, -5, -4, 0, 4, 5, 60}

SubScoreGrid == {0, 25, 75}

PolarityScores == [neg : SubScoreGrid, neu : SubScoreGrid, pos : SubScoreGrid,
                   compound : CompoundGrid]

VaderOutcomes == {Raise} \cup {[ok |-> TRUE, scores |-> v] : v \in PolarityScores}

\* GoogleTranslator.translate: raises, or returns some English text
TranslatorOutcomes ==
    {Raise, [ok |-> TRUE, text |-> <<"h", "i">>], [ok |-> TRUE, text |-> <<"#">>]}

\* the texts callers pass in
Texts == { <<>>,
           <<" ", "\t">>,
           <<"NBSP">>,
           <<"h", "i">>,
           <<"H", "i", "!">>,
           <<"l", "i", "t">>,
           <<"#", "#">>,
           <<"@", "a", "l">>,
           <<"h", "t", "t", "p", ":", "/", "a">>,
           <<"E'">>,
           <<"FIRE">> }

(***************************************************************************)
(* SentimentAnalyzer                                                       *)
(***************************************************************************)
\* the fields _load_models sets: TRUE is a loaded object, FALSE is None
NewAnalyzer == [tokenizer |-> FALSE, model |-> FALSE,
                baseline_vectorizer |-> FALSE, baseline_model |-> FALSE,
                vader_analyzer |-> FALSE]

AnalyzerObjects == [tokenizer : BOOLEAN, model : BOOLEAN,
                    baseline_vectorizer : BOOLEAN, baseline_model : BOOLEAN,
                    vader_analyzer : BOOLEAN]

\* variant of translate_if_needed: the isascii shortcut is missing
translate_if_needed_always_translates(text, tr) ==
    IF IsBlank(text) THEN text
    ELSE IF tr.ok THEN tr.text
    ELSE text

\* SentimentAnalyzer.translate_if_needed; tr is the translation service's answer
translate_if_needed(text, tr) ==
    IF IsBlank(text) THEN text
    ELSE IF isascii(text) THEN text
    ELSE IF tr.ok THEN tr.text
    ELSE text

\* whether translate_if_needed calls the translation service
TranslatorCalled(text) == ~IsBlank(text) /\ ~isascii(text)

NeutralDefault ==
    [sentiment |-> "Neutral", confidence |-> 33,
     scores |-> [negative |-> 33, neutral |-> 34, positive |-> 33],
     model_used |-> "None"]

\* variant of TwoClassCollapse: a tie goes to Positive (>= for >)
TwoClassCollapse_tie_positive(neg_score, neu_score, pos_score) ==
    LET total_polarized_score == neg_score + pos_score
    IN  IF total_polarized_score > 0
        THEN IF pos_score >= neg_score
             THEN <<"Positive", pos_score>>
             ELSE <<"Negative", neg_score>>
        ELSE <<"Negative", 50>>

\* the decision shared by _analyze_transformer and _analyze_baseline:
\* <<sentiment label, confidence>>
TwoClassCollapse(neg_score, neu_score, pos_score) ==
    LET total_polarized_score == neg_score + pos_score
    IN  IF total_polarized_score > 0
        THEN IF pos_score > neg_score
             THEN <<"Positive", pos_score>>
             ELSE <<"Negative", neg_score>>
        ELSE <<"Negative", 50>>

\* variant of _analyze_transformer: the raw neutral probability is returned
_analyze_transformer_raw_neutral(probs) ==
    LET d == TwoClassCollapse(probs.neg, probs.neu, probs.pos)
    IN  [sentiment |-> d[1], confidence |-> d[2],
         scores |-> [negative |-> probs.neg, neutral |-> probs.neu,
                     positive |-> probs.pos],
         model_used |-> "Transformer"]

\* SentimentAnalyzer._analyze_transformer, given the softmax probabilities
_analyze_transformer(probs) ==
    LET d == TwoClassCollapse(probs.neg, probs.neu, probs.pos)
    IN  [sentiment |-> d[1], confidence |-> d[2],
         scores |-> [negative |-> probs.neg, neutral |-> 0, positive |-> probs.pos],
         model_used |-> "Transformer"]

\* SentimentAnalyzer._analyze_baseline, given predict_proba
_analyze_baseline(probs) ==
    LET d == TwoClassCollapse(probs.neg, probs.neu, probs.pos)
    IN  [sentiment |-> d[1], confidence |-> d[2],
         scores |-> [negative |-> probs.neg, neutral |-> 0, positive |-> probs.pos],
         model_used |-> "Baseline"]

\* variant of _analyze_vader: strict thresholds (> 0.05, < -0.05)
_analyze_vader_strict(scores) ==
    LET sentiment == IF scores.compound > 5 THEN "Positive"
                     ELSE IF scores.compound < -5 THEN "Negative"
                     ELSE "Neutral"
        confidence == IF scores.compound > 5 THEN scores.pos
                      ELSE IF scores.compound < -5 THEN scores.neg
                      ELSE scores.neu
    IN  [sentiment |-> sentiment, confidence |-> confidence,
         scores |-> [negative |-> scores.neg, neutral |-> scores.neu,
                     positive |-> scores.pos],
         model_used |-> "VADER-fallback"]

\* SentimentAnalyzer._analyze_vader, given polarity_scores
_analyze_vader(scores) ==
    LET sentiment == IF scores.compound >= 5 THEN "Positive"
                     ELSE IF scores.compound <= -5 THEN "Negative"
                     ELSE "Neutral"
        confidence == IF scores.compound >= 5 THEN scores.pos
                      ELSE IF scores.compound <= -5 THEN scores.neg
                      ELSE scores.neu
    IN  [sentiment |-> sentiment, confidence |-> confidence,
         scores |-> [negative |-> scores.neg, neutral |-> scores.neu,
                     positive |-> scores.pos],
         model_used |-> "VADER-fallback"]

\* variant of NeuralGuard: use_transformer is ignored
NeuralGuard_ignores_flag(self, use_transformer) == self.model /\ self.tokenizer

\* the guards of the three tiers in analyze
NeuralGuard(self, use_transformer) ==
    use_transformer /\ self.model /\ self.tokenizer

ClassicalGuard(self) == self.baseline_model /\ self.baseline_vectorizer

LexiconGuard(self) == self.vader_analyzer

\* variant of ExceptionCaught: the lexicon tier is called outside a try block
ExceptionCaught_lexicon_uncaught(site) ==
    site \in {"translate", "neural", "classical"}

\* the except clauses: an Exception raised at these sites is caught and logged
ExceptionCaught(site) == site \in {"translate", "neural", "classical", "lexicon"}

\* line 112: not text or not text.strip()
NothingToAnalyze(text) == IsBlank(text)

\* variant of NothingLeft: the check after cleaning is missing
NothingLeft_unchecked(cleaned_text) == FALSE

\* line 123: not cleaned_text
NothingLeft(cleaned_text) == cleaned_text = <<>>

Attempt(tier, text) == [tier |-> tier, text |-> text]

\* SentimentAnalyzer.analyze.  tr, no, co, vo are the answers the translation
\* service, the neural model, the classical model and the lexicon analyzer
\* give if they are called.  The value records the result (or that an
\* exception left analyze) and the tiers that were called, with the text each
\* one got.
analyze(self, text, use_transformer, tr, no, co, vo) ==
    LET translated_text == translate_if_needed(text, tr)
        cleaned_text == clean_text(translated_text)
        translateRaised == TranslatorCalled(text) /\ ~tr.ok
        tryNeural == NeuralGuard(self, use_transformer)
        neuralDone == tryNeural /\ (no.ok \/ ~ExceptionCaught("neural"))
        tryClassical == ~neuralDone /\ ClassicalGuard(self)
        classicalDone == tryClassical /\ (co.ok \/ ~ExceptionCaught("classical"))
        tryLexicon == ~neuralDone /\ ~classicalDone /\ LexiconGuard(self)
        lexiconDone == tryLexicon /\ (vo.ok \/ ~ExceptionCaught("lexicon"))
        attempts == (IF tryNeural THEN <<Attempt("neural", cleaned_text)>> ELSE <<>>)
                    \o (IF tryClassical THEN <<Attempt("classical", cleaned_text)>> ELSE <<>>)
                    \o (IF tryLexicon THEN <<Attempt("lexicon", cleaned_text)>> ELSE <<>>)
        returned(r) == [raised |-> FALSE, result |-> r, attempts |-> attempts,
                        cleaned_text |-> cleaned_text]
        raised == [raised |-> TRUE, result |-> NeutralDefault, attempts |-> attempts,
                   cleaned_text |-> cleaned_text]
        early == [raised |-> FALSE, result |-> NeutralDefault, attempts |-> <<>>,
                  cleaned_text |-> <<>>]
    IN  IF NothingToAnalyze(text) THEN early
        ELSE IF translateRaised /\ ~ExceptionCaught("translate")
        THEN [raised |-> TRUE, result |-> NeutralDefault, attempts |-> <<>>,
              cleaned_text |-> <<>>]
        ELSE IF NothingLeft(cleaned_text) THEN early
        ELSE IF neuralDone
        THEN (IF no.ok THEN returned(_analyze_transformer(no.probs)) ELSE raised)
        ELSE IF classicalDone
        THEN (IF co.ok THEN returned(_analyze_baseline(co.probs)) ELSE raised)
        ELSE IF lexiconDone
        THEN (IF vo.ok THEN returned(_analyze_vader(vo.scores)) ELSE raised)
        ELSE returned(NeutralDefault)

(***************************************************************************)
(* Startup: SentimentAnalyzer.__init__, _load_models, get_analyzer          *)
(***************************************************************************)
\* what the model store holds for the neural tier: no directory, a directory
\* whose tokenizer fails to load, one whose model fails to load after the
\* tokenizer loaded, or a loadable pair
TransformerStates == {"absent", "tokenizer_fails", "model_fails", "ok"}

\* what it holds for the classical tier: no file, a file that fails to
\* unpickle, a pickle with 'vectorizer' but no 'model' key, or a loadable pair
BaselineStates == {"absent", "load_fails", "no_model_key", "ok"}

ModelStores == [transformer : TransformerStates, baseline : BaselineStates]

\* lines 47-59: the neural tier
LoadTransformer(self, store) ==
    [self EXCEPT !.tokenizer = store.transformer \in {"model_fails", "ok"},
                 !.model = store.transformer = "ok"]

\* lines 61-71: the classical tier
LoadBaseline(self, store) ==
    [self EXCEPT !.baseline_vectorizer = store.baseline \in {"no_model_key", "ok"},
                 !.baseline_model = store.baseline = "ok"]

\* line 73: the lexicon tier is set up only when this holds
LexiconWanted(self) == ~self.model /\ ~self.baseline_model

\* line 74 reads the name VaderAnalyzer, which the module neither imports nor
\* defines: evaluating it raises NameError
VaderAnalyzerDefined == FALSE

\* SentimentAnalyzer._load_models (and so SentimentAnalyzer()): the fields it
\* leaves, or the exception that leaves it
_load_models(store) ==
    LET self == LoadBaseline(LoadTransformer(NewAnalyzer, store), store)
    IN  IF LexiconWanted(self)
        THEN IF VaderAnalyzerDefined
             THEN [raised |-> FALSE, self |-> [self EXCEPT !.vader_analyzer = TRUE]]
             ELSE [raised |-> TRUE, self |-> self]
        ELSE [raised |-> FALSE, self |-> self]

\* variant of _analyzer_is_None: get_analyzer constructs on every call
_analyzer_is_None_always(a) == TRUE

\* line 277
_analyzer_is_None(a) == a = 0

VARIABLES
    modelStore,   \* the model files on disk (fixed for the process lifetime)
    objects,      \* the SentimentAnalyzer instances constructed so far
    _analyzer,    \* sentiment_analyzer._analyzer: 0 is None, else an index of objects
    analyzer,     \* server.analyzer: 0 is None, else an index of objects
    pc,           \* "import" while server.py is being imported, then "serving"
    got,          \* what the last get_analyzer call gave its caller
    req,          \* the HTTP requests
    loop,         \* the request whose handler occupies the event loop thread, or 0
    history,      \* db.analysis_history
    call          \* the direct call or the batch request in progress, if any

vars == <<modelStore, objects, _analyzer, analyzer, pc, got, req, loop, history, call>>

NoCall == [active |-> FALSE]

NoRequest == [phase |-> "none", status |-> 0, sentiment |-> "", model_used |-> ""]

Init ==
    /\ modelStore \in ModelStores
    /\ objects = <<>>
    /\ _analyzer = 0
    /\ analyzer = 0
    /\ pc = "import"
    /\ got = <<"nothing", 0>>
    /\ req = [r \in Requests |-> NoRequest]
    /\ loop = 0
    /\ history = <<>>
    /\ call = NoCall

\* get_analyzer, as a step: the caller gets an instance or an exception
GetAnalyzer(result) ==
    IF _analyzer_is_None(_analyzer)
    THEN LET made == _load_models(modelStore)
         IN  IF made.raised
             THEN /\ result = "NameError"
                  /\ UNCHANGED <<objects, _analyzer>>
             ELSE /\ objects' = Append(objects, made.self)
                  /\ _analyzer' = Len(objects) + 1
                  /\ result = "instance"
    ELSE /\ result = "instance"
         /\ UNCHANGED <<objects, _analyzer>>

\* server.py lines 54-59
ServerInit ==
    /\ pc = "import"
    /\ \E result \in {"instance", "NameError"} :
          /\ GetAnalyzer(result)
          /\ analyzer' = IF result = "instance" THEN _analyzer' ELSE 0
    /\ pc' = "serving"
    /\ UNCHANGED <<modelStore, got, req, loop, history, call>>

\* a later get_analyzer call, from any thread
GetAnalyzerCall ==
    /\ pc = "serving"
    /\ \E result \in {"instance", "NameError"} :
          /\ GetAnalyzer(result)
          /\ got' = IF result = "instance" THEN <<"instance", _analyzer'>>
                    ELSE <<"raised", 0>>
    /\ UNCHANGED <<modelStore, analyzer, pc, req, loop, history, call>>

(***************************************************************************)
(* server.py: POST /api/analyze/text.  The handler is a coroutine on the   *)
(* single event loop thread: it holds the thread from dispatch to its      *)
(* first await (the history insert), and again from the insert's           *)
(* completion to the response.                                             *)
(***************************************************************************)
\* the inputs of the requests the server is driven with
ServedTexts == { <<" ">>, <<"h", "i">>, <<"E'">> }

ServedModelOutcomes ==
    {Raise, [ok |-> TRUE, probs |-> [neg |-> 0, neu |-> 40, pos |-> 70]],
            [ok |-> TRUE, probs |-> [neg |-> 70, neu |-> 0, pos |-> 40]]}

ServedVaderOutcomes ==
    {Raise, [ok |-> TRUE, scores |-> [neg |-> 0, neu |-> 75, pos |-> 25, compound |-> 0]]}

Respond(r, status) ==
    req' = [req EXCEPT ![r].phase = "done", ![r].status = status]

\* a request reaches the server
Arrive(r) ==
    /\ pc = "serving"
    /\ req[r].phase = "none"
    /\ req' = [req EXCEPT ![r].phase = "pending"]
    /\ UNCHANGED <<modelStore, objects, _analyzer, analyzer, pc, got, loop, history, call>>

\* lines 538-544: the event loop starts the handler, which answers 503 or
\* goes on to autocorrect_text and analyzer.analyze on the loop thread
Dispatch(r) ==
    /\ req[r].phase = "pending"
    /\ loop = 0
    /\ IF analyzer = 0
       THEN /\ Respond(r, 503)
            /\ UNCHANGED loop
       ELSE /\ req' = [req EXCEPT ![r].phase = "classifying"]
            /\ loop' = r
    /\ UNCHANGED <<modelStore, objects, _analyzer, analyzer, pc, got, history, call>>

\* lines 543-565: analyzer.analyze returns (or raises, answered with 500) and
\* the handler awaits the history insert, which frees the loop thread
Classified(r) ==
    /\ req[r].phase = "classifying"
    /\ loop = r
    /\ \E corrected_text \in ServedTexts, tr \in TranslatorOutcomes,
          no \in ServedModelOutcomes, co \in ServedModelOutcomes,
          vo \in ServedVaderOutcomes :
          LET out == analyze(objects[analyzer], corrected_text, TRUE, tr, no, co, vo)
          IN  IF out.raised
              THEN Respond(r, 500)
              ELSE req' = [req EXCEPT ![r].phase = "inserting",
                                      ![r].sentiment = out.result.sentiment,
                                      ![r].model_used = out.result.model_used]
    /\ loop' = 0
    /\ UNCHANGED <<modelStore, objects, _analyzer, analyzer, pc, got, history, call>>

\* lines 565-571: insert_one completes and the handler resumes on the loop
\* thread to answer, or insert_one raises and the handler answers 500
Inserted(r) ==
    /\ req[r].phase = "inserting"
    /\ loop = 0
    /\ \E stored \in BOOLEAN :
          IF stored
          THEN /\ history' = Append(history, [analysis_type |-> "single",
                                              sentiment |-> req[r].sentiment,
                                              model_used |-> req[r].model_used])
               /\ Respond(r, 200)
          ELSE /\ Respond(r, 500)
               /\ UNCHANGED history
    /\ UNCHANGED <<modelStore, objects, _analyzer, analyzer, pc, got, loop, call>>

Next ==
    \/ ServerInit
    \/ GetAnalyzerCall
    \/ \E r \in Requests : Arrive(r)
    \/ \E r \in Requests : Dispatch(r)
    \/ \E r \in Requests : Classified(r)
    \/ \E r \in Requests : Inserted(r)

Spec == Init /\ [][Next]_vars

(***************************************************************************)
(* analyze as a function of the analyzer object and its inputs: the object *)
(* is any combination of loaded and absent fields, the call any text, flag *)
(* and collaborator answers.                                               *)
(***************************************************************************)
InitTiers ==
    /\ modelStore \in {[transformer |-> "absent", baseline |-> "absent"]}
    /\ objects \in {<<self>> : self \in AnalyzerObjects}
    /\ _analyzer = 1
    /\ analyzer = 1
    /\ pc = "serving"
    /\ got = <<"nothing", 0>>
    /\ req = [r \in Requests |-> NoRequest]
    /\ loop = 0
    /\ history = <<>>
    /\ call = NoCall

Attempted(out, tier) == \E i \in 1..Len(out.attempts) : out.attempts[i].tier = tier

\* analyzer.analyze(text, use_transformer) is called and returns or raises;
\* a collaborator that is not called gives no answer (recorded as Raise)
AnalyzeCall ==
    /\ ~call.active
    /\ \E text \in Texts, use_transformer \in BOOLEAN :
       \E tr \in IF TranslatorCalled(text) THEN TranslatorOutcomes ELSE {Raise} :
       LET self == objects[analyzer] IN
       \E no \in IF Attempted(analyze(self, text, use_transformer, tr, Raise, Raise, Raise), "neural")
                 THEN ModelOutcomes ELSE {Raise} :
       \E co \in IF Attempted(analyze(self, text, use_transformer, tr, no, Raise, Raise), "classical")
                 THEN ModelOutcomes ELSE {Raise} :
       \E vo \in IF Attempted(analyze(self, text, use_transformer, tr, no, co, Raise), "lexicon")
                 THEN VaderOutcomes ELSE {Raise} :
          call' = [active |-> TRUE, self |-> self, text |-> text,
                   use_transformer |-> use_transformer,
                   tr |-> tr, no |-> no, co |-> co, vo |-> vo,
                   out |-> analyze(self, text, use_transformer, tr, no, co, vo)]
    /\ UNCHANGED <<modelStore, objects, _analyzer, analyzer, pc, got, req, loop, history>>

\* the caller is done with the result
AnalyzeReturn ==
    /\ call.active
    /\ call' = NoCall
    /\ UNCHANGED <<modelStore, objects, _analyzer, analyzer, pc, got, req, loop, history>>

NextTiers == AnalyzeCall \/ AnalyzeReturn

SpecTiers == InitTiers /\ [][NextTiers]_vars

(***************************************************************************)
(* Properties of analyze (checked under SpecTiers)                         *)
(***************************************************************************)
TierRank(tier) == CASE tier = "neural" -> 1
                    [] tier = "classical" -> 2
                    [] tier = "lexicon" -> 3

\* the tier called in this analyze call failed (raised)
Failed(c, tier) ==
    /\ Attempted(c.out, tier)
    /\ CASE tier = "neural" -> ~c.no.ok
         [] tier = "classical" -> ~c.co.ok
         [] tier = "lexicon" -> ~c.vo.ok

Served(c, tier) == Attempted(c.out, tier) /\ ~Failed(c, tier)

\* C1: the tiers are tried in the order neural, classical, lexicon, default:
\* neural only if loaded and use_transformer; classical only if loaded and
\* neural was skipped or failed; lexicon only if loaded and both earlier tiers
\* were skipped or failed; model_used names the first tier that was called
\* and did not fail, or None; every tier called gets the same normalized text.
C1_TierOrder ==
    call.active =>
      LET out == call.out
          self == call.self
          normalized == clean_text(translate_if_needed(call.text, call.tr))
      IN  /\ Attempted(out, "neural") =>
                self.model /\ self.tokenizer /\ call.use_transformer
          /\ Attempted(out, "classical") =>
                /\ self.baseline_model /\ self.baseline_vectorizer
                /\ ~Served(call, "neural")
          /\ Attempted(out, "lexicon") =>
                /\ self.vader_analyzer
                /\ ~Served(call, "neural") /\ ~Served(call, "classical")
          /\ \A i, j \in 1..Len(out.attempts) :
                i < j => TierRank(out.attempts[i].tier) < TierRank(out.attempts[j].tier)
          /\ \A i \in 1..Len(out.attempts) : out.attempts[i].text = normalized
          /\ out.result.model_used =
                IF Served(call, "neural") THEN "Transformer"
                ELSE IF Served(call, "classical") THEN "Baseline"
                ELSE IF Served(call, "lexicon") THEN "VADER-fallback"
                ELSE "None"

\* the neural tier failed, then the classical tier failed on the same text,
\* and the lexicon tier answered
C1_Witness ==
    /\ call.active
    /\ Failed(call, "neural") /\ Failed(call, "classical") /\ Served(call, "lexicon")
    /\ call.out.result.model_used = "VADER-fallback"
    /\ call.out.attempts[1].text = call.out.attempts[3].text

IsSentimentResult(r) ==
    /\ r.sentiment \in {"Negative", "Neutral", "Positive"}
    /\ r.confidence \in 0..100
    /\ r.scores \in [negative : 0..100, neutral : 0..100, positive : 0..100]
    /\ r.model_used \in {"None", "Transformer", "Baseline", "VADER-fallback"}

\* C2: whatever tiers are loaded, whichever tiers fail and whether or not the
\* translation fails, analyze returns a SentimentResult and raises nothing.
C2_NeverRaises ==
    call.active => ~call.out.raised /\ IsSentimentResult(call.out.result)

\* the translation failed and every one of the three tiers was called and
\* failed, and analyze still returned
C2_Witness ==
    /\ call.active
    /\ TranslatorCalled(call.text) /\ ~call.tr.ok
    /\ Failed(call, "neural") /\ Failed(call, "classical") /\ Failed(call, "lexicon")
    /\ ~call.out.raised

\* C4: a blank input, and an input whose normalized text is empty, gets the
\* neutral default with no tier called, whatever tiers are loaded.
C4_BlankIsNeutralDefault ==
    (/\ call.active
     /\ \/ IsBlank(call.text)
        \/ clean_text(translate_if_needed(call.text, call.tr)) = <<>>)
    => /\ call.out.result = NeutralDefault
       /\ call.out.attempts = <<>>

\* all tiers are loaded and a non-blank text normalizes to nothing
C4_Witness ==
    /\ call.active
    /\ call.self.model /\ call.self.tokenizer /\ call.self.baseline_model
    /\ call.self.baseline_vectorizer /\ call.self.vader_analyzer
    /\ ~IsBlank(call.text)
    /\ clean_text(translate_if_needed(call.text, call.tr)) = <<>>
    /\ call.out.result = NeutralDefault

\* the probabilities behind a Transformer or Baseline result
RawProbs(c) == IF c.out.result.model_used = "Transformer" THEN c.no.probs ELSE c.co.probs

\* C5: two-class collapse: with pos + neg > 0 the label is Positive exactly
\* when pos > neg, else Negative, with the chosen class's probability as
\* confidence; with pos + neg = 0 it is Negative with confidence 0.5; the
\* neutral probability has no influence on the label.
C5_TwoClassCollapse ==
    (call.active /\ call.out.result.model_used \in {"Transformer", "Baseline"}) =>
      LET p == RawProbs(call)
          r == call.out.result
      IN  /\ p.pos + p.neg > 0 =>
                /\ r.sentiment = "Positive" <=> p.pos > p.neg
                /\ r.sentiment = "Negative" <=> ~(p.pos > p.neg)
                /\ r.confidence = IF p.pos > p.neg THEN p.pos ELSE p.neg
          /\ p.pos + p.neg = 0 =>
                r.sentiment = "Negative" /\ r.confidence = 50
          /\ \A neu \in ProbGrid :
                /\ _analyze_transformer([p EXCEPT !.neu = neu]).sentiment = r.sentiment
                /\ _analyze_baseline([p EXCEPT !.neu = neu]).sentiment = r.sentiment

\* a tie between positive and negative, decided as Negative
C5_Witness ==
    /\ call.active
    /\ call.out.result.model_used = "Baseline"
    /\ call.co.probs.pos = call.co.probs.neg /\ call.co.probs.pos > 0
    /\ call.out.result.sentiment = "Negative"

\* C6: a Transformer or Baseline result is Positive or Negative and has
\* scores.neutral = 0, whatever the raw neutral probability; so a Neutral
\* result comes from VADER-fallback or None.
C6_NoNeutralFromModels ==
    call.active =>
      LET r == call.out.result
      IN  /\ r.model_used \in {"Transformer", "Baseline"} =>
                r.sentiment \in {"Positive", "Negative"} /\ r.scores.neutral = 0
          /\ r.sentiment = "Neutral" => r.model_used \in {"VADER-fallback", "None"}

\* the neural model's neutral probability dominates and the result is not Neutral
C6_Witness ==
    /\ call.active
    /\ call.out.result.model_used = "Transformer"
    /\ call.no.probs.neu > call.no.probs.pos /\ call.no.probs.neu > call.no.probs.neg
    /\ call.out.result.scores.neutral = 0

\* C7: lexicon labelling: Positive if compound >= 0.05, Negative if
\* compound <= -0.05, else Neutral; confidence is the pos, neg or neu
\* sub-score of the label; the sub-scores are returned unchanged.
C7_LexiconLabel ==
    (call.active /\ call.out.result.model_used = "VADER-fallback") =>
      LET v == call.vo.scores
          r == call.out.result
      IN  /\ v.compound >= 5 => r.sentiment = "Positive" /\ r.confidence = v.pos
          /\ v.compound <= -5 => r.sentiment = "Negative" /\ r.confidence = v.neg
          /\ (v.compound < 5 /\ v.compound > -5) =>
                r.sentiment = "Neutral" /\ r.confidence = v.neu
          /\ r.scores = [negative |-> v.neg, neutral |-> v.neu, positive |-> v.pos]

\* the compound score sits exactly on the positive threshold
C7_Witness ==
    /\ call.active
    /\ call.out.result.model_used = "VADER-fallback"
    /\ call.vo.scores.compound = 5
    /\ call.out.result.sentiment = "Positive"

(***************************************************************************)
(* Properties of the server process (checked under Spec)                   *)
(***************************************************************************)
\* C3: when no tier's backing model is available at startup, startup still
\* succeeds: the analyzer stays available to callers (no request is answered
\* 503) and every classification gives the neutral default with model_used
\* None.
C3_NoTierStartupSucceeds ==
    (/\ pc = "serving"
     /\ modelStore.transformer = "absent"
     /\ modelStore.baseline = "absent")
    => /\ analyzer # 0
       /\ \A r \in Requests :
             /\ req[r].status # 503
             /\ req[r].phase = "inserting" =>
                   req[r].sentiment = "Neutral" /\ req[r].model_used = "None"

\* C8: the lexicon tier is loaded independently of the other two: a process
\* whose neural or classical tier is loaded has the lexicon tier as well.
C8_LexiconIndependent ==
    (/\ pc = "serving"
     /\ analyzer # 0
     /\ objects[analyzer].model \/ objects[analyzer].baseline_model)
    => objects[analyzer].vader_analyzer

\* C9: once the server is serving, no step (a request's classification, with
\* or without a tier failing, or a get_analyzer call) changes the loaded tiers
\* or replaces the analyzer instance, and every get_analyzer call that
\* returns gives the instance the first call gave.
C9_TierStateFrozen ==
    [][pc = "serving" =>
          /\ objects' = objects
          /\ _analyzer' = _analyzer
          /\ analyzer' = analyzer
          /\ got'[1] = "instance" => got'[2] = analyzer]_vars

\* the neural tier is loaded and failed in a request (the classical tier
\* answered it), a later get_analyzer call returned, and the instance is the
\* one made at startup with its tiers as loaded
C9_Witness ==
    /\ pc = "serving"
    /\ analyzer = 1 /\ Len(objects) = 1
    /\ objects[1].model /\ objects[1].tokenizer /\ objects[1].baseline_model
    /\ \E r \in Requests : req[r].phase = "done" /\ req[r].model_used = "Baseline"
    /\ got = <<"instance", 1>>

\* C10: classification runs off the request-dispatch thread: while one
\* request is being classified, a pending request can be dispatched.
C10_DispatchNotBlocked ==
    \A r1, r2 \in Requests :
        (req[r1].phase = "classifying" /\ req[r2].phase = "pending") => loop = 0

(***************************************************************************)
(* clean_text, translate_if_needed and get_word_frequencies as functions   *)
(* of their arguments: one call at a time, on any text over a small        *)
(* alphabet.                                                               *)
(***************************************************************************)
MaxTextLen == 5

TextAlphabet == {"w", "#", " ", "@", "E'", "NBSP"}

TextSpace == UNION {[1..n -> TextAlphabet] : n \in 0..MaxTextLen}

\* a process whose neural tier loaded
InitText ==
    /\ modelStore = [transformer |-> "ok", baseline |-> "absent"]
    /\ objects = <<[NewAnalyzer EXCEPT !.tokenizer = TRUE, !.model = TRUE]>>
    /\ _analyzer = 1
    /\ analyzer = 1
    /\ pc = "serving"
    /\ got = <<"nothing", 0>>
    /\ req = [r \in Requests |-> NoRequest]
    /\ loop = 0
    /\ history = <<>>
    /\ call = NoCall

\* analyzer.clean_text(text), and clean_text again on what it returned
CleanTextCall ==
    /\ ~call.active
    /\ \E text \in TextSpace :
          call' = [active |-> TRUE, op |-> "clean_text", text |-> text,
                   out |-> clean_text(text),
                   again |-> clean_text(clean_text(text))]
    /\ UNCHANGED <<modelStore, objects, _analyzer, analyzer, pc, got, req, loop, history>>

\* analyzer.translate_if_needed(text): what it returns, whether an exception
\* leaves it, and how many times it calls the translation service
TranslateCall ==
    /\ ~call.active
    /\ \E text \in TextSpace, tr \in TranslatorOutcomes :
          call' = [active |-> TRUE, op |-> "translate_if_needed", text |-> text,
                   tr |-> tr,
                   out |-> translate_if_needed(text, tr),
                   raised |-> /\ TranslatorCalled(text) /\ ~tr.ok
                              /\ ~ExceptionCaught("translate"),
                   calls |-> IF TranslatorCalled(text) THEN 1 ELSE 0]
    /\ UNCHANGED <<modelStore, objects, _analyzer, analyzer, pc, got, req, loop, history>>

\* the caller is done with the result
TextReturn ==
    /\ call.active
    /\ call' = NoCall
    /\ UNCHANGED <<modelStore, objects, _analyzer, analyzer, pc, got, req, loop, history>>

(***************************************************************************)
(* SentimentAnalyzer.get_word_frequencies                                  *)
(***************************************************************************)
\* line 263
stop_words ==
    {<<"t", "h", "e">>, <<"a">>, <<"a", "n">>, <<"a", "n", "d">>,
     <<"o", "r">>, <<"b", "u", "t">>, <<"i", "n">>, <<"o", "n">>,
     <<"a", "t">>, <<"t", "o">>, <<"f", "o", "r">>, <<"o", "f">>,
     <<"w", "i", "t", "h">>, <<"i", "s">>, <<"w", "a", "s">>,
     <<"a", "r", "e">>, <<"w", "e", "r", "e">>, <<"b", "e", "e", "n">>,
     <<"b", "e">>, <<"h", "a", "v", "e">>, <<"h", "a", "s">>,
     <<"h", "a", "d">>, <<"d", "o">>, <<"d", "o", "e", "s">>,
     <<"d", "i", "d">>, <<"w", "i", "l", "l">>,
     <<"w", "o", "u", "l", "d">>, <<"s", "h", "o", "u", "l", "d">>,
     <<"c", "o", "u", "l", "d">>, <<"m", "a", "y">>,
     <<"m", "i", "g", "h", "t">>, <<"c", "a", "n">>,
     <<"t", "h", "i", "s">>, <<"t", "h", "a", "t">>,
     <<"t", "h", "e", "s", "e">>, <<"t", "h", "o", "s", "e">>, <<"i">>,
     <<"y", "o", "u">>, <<"h", "e">>, <<"s", "h", "e">>, <<"i", "t">>,
     <<"w", "e">>, <<"t", "h", "e", "y">>, <<"m", "y">>,
     <<"y", "o", "u", "r">>, <<"h", "i", "s">>, <<"h", "e", "r">>,
     <<"i", "t", "s">>, <<"o", "u", "r">>, <<"t", "h", "e", "i", "r">>}

\* variant of Qualifies: stopwords are counted
Qualifies_keeps_stopwords(w) == Len(w) > 2

\* line 266: the words that are counted
Qualifies(w) == w \notin stop_words /\ Len(w) > 2

\* Counter(filtered_words): the distinct words in first-seen order, each with
\* its number of occurrences
RECURSIVE Counter(_)
Counter(words) ==
    IF words = <<>> THEN <<>>
    ELSE LET w == Head(words)
             n == Cardinality({i \in 1..Len(words) : words[i] = w})
         IN  <<[word |-> w, count |-> n]>>
             \o Counter(SelectSeq(Tail(words), LAMBDA x : x # w))

RemoveAt(items, i) == SubSeq(items, 1, i - 1) \o SubSeq(items, i + 1, Len(items))

MaxCount(items) ==
    LET counts == {items[j].count : j \in 1..Len(items)}
    IN  CHOOSE c \in counts : \A d \in counts : d <= c

\* variant of most_common: among equal counts the last-seen word comes first
RECURSIVE most_common_last_seen_first(_, _)
most_common_last_seen_first(items, n) ==
    IF n = 0 \/ items = <<>> THEN <<>>
    ELSE LET m == MaxCount(items)
             i == CHOOSE k \in 1..Len(items) :
                     /\ items[k].count = m
                     /\ \A j \in (k + 1)..Len(items) : items[j].count # m
         IN  <<items[i]>> \o most_common_last_seen_first(RemoveAt(items, i), n - 1)

\* Counter.most_common(n): the n entries with the largest counts, largest
\* first, entries with equal counts in their order in the Counter
RECURSIVE most_common(_, _)
most_common(items, n) ==
    IF n = 0 \/ items = <<>> THEN <<>>
    ELSE LET m == MaxCount(items)
             i == CHOOSE k \in 1..Len(items) :
                     /\ items[k].count = m
                     /\ \A j \in 1..(k - 1) : items[j].count # m
         IN  <<items[i]>> \o most_common(RemoveAt(items, i), n - 1)

\* line 270
TopWords == 50

\* SentimentAnalyzer.get_word_frequencies: the dict it returns, as the
\* sequence of its entries
get_word_frequencies(texts) ==
    LET all_text == join([i \in 1..Len(texts) |-> clean_text(texts[i])])
        words == split(all_text)
        filtered_words == SelectSeq(words, Qualifies)
        word_counts == Counter(filtered_words)
    IN  most_common(word_counts, TopWords)

\* the argument lists of the calls: a few short texts, in lists of up to
\* MaxBatch, and long lists of distinct one-word texts followed by repeats
MaxBatch == 2

MaxDistinct == 52

MaxRepeats == 2

WordTexts ==
    { <<>>,
      <<"t", "h", "e", " ", "h", "a", "t", " ", "s", "a", "t">>,
      <<"t", "h", "e", " ", "h", "a", "t", " ", "r", "a", "n", " ", "f", "a", "s", "t">>,
      <<"h", "i", " ", "a", "t">>,
      <<"H", "a", "t", "!", " ", "h", "a", "t">>,
      <<"@", "a", "l", " ", "h", "a", "t">>,
      <<"l", "i", "t", " ", "h", "a", "t", " ", "l", "i", "t">> }

SmallBatches == UNION {[1..n -> WordTexts] : n \in 0..MaxBatch}

WordLetters == <<"a", "b", "e", "g">>

\* the k-th of 64 distinct three-letter words
Word(k) == << WordLetters[(((k - 1) \div 16) % 4) + 1],
              WordLetters[(((k - 1) \div 4) % 4) + 1],
              WordLetters[((k - 1) % 4) + 1] >>

\* the words 1..n, one text each, followed by texts that repeat some of the
\* first, the last and the last but one of them
LargeBatches ==
    UNION { { [i \in 1..n |-> Word(i)] \o [i \in 1..Len(ks) |-> Word(ks[i])] :
                ks \in UNION {[1..m -> {1, n - 1, n} \cap 1..n] : m \in 0..MaxRepeats} }
            : n \in 0..MaxDistinct }

Batches == SmallBatches \cup LargeBatches

\* analyzer.get_word_frequencies(texts)
WordFrequenciesCall ==
    /\ ~call.active
    /\ \E texts \in Batches :
          call' = [active |-> TRUE, op |-> "get_word_frequencies", texts |-> texts,
                   out |-> get_word_frequencies(texts)]
    /\ UNCHANGED <<modelStore, objects, _analyzer, analyzer, pc, got, req, loop, history>>

NextText == CleanTextCall \/ TranslateCall \/ WordFrequenciesCall \/ TextReturn

SpecText == InitText /\ [][NextText]_vars

(***************************************************************************)
(* Properties of clean_text and translate_if_needed (checked under         *)
(* SpecText)                                                               *)
(***************************************************************************)
\* s has a match of the pattern http\S+|www\S+
HasUrl(s) ==
    \E i \in 1..Len(s) :
        LET rest == SubSeq(s, i, Len(s))
        IN  \/ HasPrefix(rest, <<"h", "t", "t", "p">>) /\ Len(rest) > 4 /\ NonSpace(rest[5])
            \/ HasPrefix(rest, <<"w", "w", "w">>) /\ Len(rest) > 3 /\ NonSpace(rest[4])

\* s has a match of the pattern @\w+
HasMention(s) ==
    \E i \in 1..(Len(s) - 1) : s[i] = "@" /\ WordChar(s[i + 1])

\* C12: for every non-empty input, the output of clean_text has no match of
\* the URL pattern and no match of the mention pattern, also when the match
\* only arises once later steps have deleted characters inside a token.
C12_NoUrlNoMention ==
    (call.active /\ call.op = "clean_text" /\ call.text # <<>>) =>
        ~HasUrl(call.out) /\ ~HasMention(call.out)

\* s has a slang-table key as one of its tokens or inside one
ContainsSlangKey(s) ==
    \E i \in 1..Len(s), j \in 1..Len(s) :
        i <= j /\ SENTIMENT_FLIPS(SubSeq(s, i, j)) # SubSeq(s, i, j)

\* C13: clean_text is idempotent on input that contains no slang-table key.
C13_Idempotent ==
    (call.active /\ call.op = "clean_text" /\ ~ContainsSlangKey(call.text)) =>
        call.again = call.out

\* C14: translate_if_needed returns a blank or pure-ASCII input unchanged
\* without calling the translation service; for any other input it calls the
\* service once and returns its answer, or the input if the call fails; no
\* exception leaves it.
C14_TranslateIfNeeded ==
    (call.active /\ call.op = "translate_if_needed") =>
        /\ ~call.raised
        /\ IF IsBlank(call.text) \/ isascii(call.text)
           THEN call.out = call.text /\ call.calls = 0
           ELSE /\ call.calls = 1
                /\ call.out = IF call.tr.ok THEN call.tr.text ELSE call.text

\* a text with a non-ASCII letter whose translation failed came back unchanged
C14_Witness ==
    /\ call.active /\ call.op = "translate_if_needed"
    /\ ~IsBlank(call.text) /\ ~isascii(call.text)
    /\ ~call.tr.ok
    /\ call.calls = 1
    /\ call.out = call.text

(***************************************************************************)
(* Properties of get_word_frequencies (checked under SpecText)             *)
(***************************************************************************)
\* the whitespace-delimited tokens of the normalized texts, text by text
RECURSIVE NormalizedTokens(_)
NormalizedTokens(texts) ==
    IF texts = <<>> THEN <<>>
    ELSE split(clean_text(Head(texts))) \o NormalizedTokens(Tail(texts))

Occurrences(toks, w) == Cardinality({i \in 1..Len(toks) : toks[i] = w})

FirstSeen(toks, w) ==
    CHOOSE i \in 1..Len(toks) : toks[i] = w /\ \A j \in 1..(i - 1) : toks[j] # w

\* C15: get_word_frequencies returns at most 50 entries, exactly 50 when at
\* least 50 distinct words qualify, in descending order of count, words of
\* equal count in order of first occurrence; no word left out has a higher
\* count than a word returned.
C15_Top50Ordered ==
    (call.active /\ call.op = "get_word_frequencies") =>
      LET out == call.out
          toks == SelectSeq(NormalizedTokens(call.texts),
                            LAMBDA w : w \notin stop_words /\ Len(w) >= 3)
          distinct == {toks[i] : i \in 1..Len(toks)}
          returned == {out[i].word : i \in 1..Len(out)}
      IN  /\ Len(out) <= 50
          /\ Cardinality(distinct) >= 50 => Len(out) = 50
          /\ Cardinality(returned) = Len(out)
          /\ returned \subseteq distinct
          /\ \A i, j \in 1..Len(out) :
                i < j => /\ out[i].count >= out[j].count
                         /\ out[i].count = out[j].count =>
                               FirstSeen(toks, out[i].word) < FirstSeen(toks, out[j].word)
          /\ \A w \in distinct \ returned :
                \A i \in 1..Len(out) : Occurrences(toks, w) <= out[i].count

\* more than 50 distinct words, the 51st of them seen twice: 50 entries are
\* returned and the repeated word leads them
C15_Witness ==
    /\ call.active /\ call.op = "get_word_frequencies"
    /\ Len(call.texts) = 53
    /\ call.texts[53] = call.texts[51]
    /\ Len(call.out) = 50
    /\ call.out[1] = [word |-> Word(51), count |-> 2]
    /\ call.out[2] = [word |-> Word(1), count |-> 1]

\* C16: every key returned is a whitespace-delimited token of the normalized
\* texts, is no stopword and has at least 3 characters, and its value is the
\* number of occurrences of the token in all normalized texts; an empty
\* sequence of texts gives an empty mapping.
C16_KeysAndCounts ==
    (call.active /\ call.op = "get_word_frequencies") =>
      LET out == call.out
          toks == NormalizedTokens(call.texts)
      IN  /\ \A i \in 1..Len(out) :
                /\ \E k \in 1..Len(toks) : toks[k] = out[i].word
                /\ out[i].word \notin stop_words
                /\ Len(out[i].word) >= 3
                /\ out[i].count = Occurrences(toks, out[i].word)
          /\ call.texts = <<>> => out = <<>>

\* "the hat sat", "the hat ran fast": hat counts 2 and leads, the is left out
C16_Witness ==
    /\ call.active /\ call.op = "get_word_frequencies"
    /\ call.texts = << <<"t", "h", "e", " ", "h", "a", "t", " ", "s", "a", "t">>,
                       <<"t", "h", "e", " ", "h", "a", "t", " ", "r", "a", "n", " ",
                         "f", "a", "s", "t">> >>
    /\ call.out = << [word |-> <<"h", "a", "t">>, count |-> 2],
                     [word |-> <<"s", "a", "t">>, count |-> 1],
                     [word |-> <<"r", "a", "n">>, count |-> 1],
                     [word |-> <<"f", "a", "s", "t">>, count |-> 1] >>

(***************************************************************************)
(* server.py: scroll_and_collect, one loop iteration per step.  Each       *)
(* iteration scrolls, then reads the texts of the elements on the page     *)
(* (page.locator(selector).all_text_contents()), which may raise.          *)
(***************************************************************************)
MaxScrolls == 8

MaxTarget == 3

\* the element texts a page may show
PageItems ==
    { <<"a", "a", "a", "a", "a", "a">>,
      <<" ", "a", "a", "a", "a", "a", "a", " ">>,
      <<"b", "b", "b", "b", "b", "b">>,
      <<"g", "g", "g", "g", "g", "g", "g">>,
      <<"a", "a", "a", "a", "a">>,
      <<" ", "a", "a", "a", "a", " ">> }

\* what one read gives: an exception, or the texts on the page
PageReads == {Raise} \cup {[ok |-> TRUE, elements |-> e] : e \in SUBSET PageItems}

RECURSIVE DropTrailingSpace(_)
DropTrailingSpace(s) ==
    IF s # <<>> /\ IsSpace(s[Len(s)])
    THEN DropTrailingSpace(SubSeq(s, 1, Len(s) - 1))
    ELSE s

\* str.strip
strip(s) == DropTrailingSpace(DropSpace(s))

\* lines 163-167: the stripped texts that are collected
Collectable(elements) == {strip(t) : t \in {e \in elements : Len(strip(e)) > 5}}

\* variant of Stagnated: the loop gives up one scroll early
Stagnated_one_early(stagnant_scrolls) == stagnant_scrolls >= 5

\* line 174
Stagnated(stagnant_scrolls) == stagnant_scrolls > 5

\* lines 151-153: scroll_and_collect(page, selector, max_scrolls, target_count)
\* is called.  quiet counts the successful reads since the number of
\* collected items last grew.
ScrollStart ==
    /\ ~call.active
    /\ \E max_scrolls \in 0..MaxScrolls, target_count \in 1..MaxTarget :
          call' = [active |-> TRUE, op |-> "scroll_and_collect",
                   max_scrolls |-> max_scrolls, target_count |-> target_count,
                   pc |-> "loop", i |-> 0,
                   collected_items |-> {}, last_count |-> 0, stagnant_scrolls |-> 0,
                   quiet |-> 0, out |-> <<>>]
    /\ UNCHANGED <<modelStore, objects, _analyzer, analyzer, pc, got, req, loop, history>>

\* lines 155-181: one iteration of the for loop
ScrollStep ==
    /\ call.active /\ call.op = "scroll_and_collect"
    /\ call.pc = "loop"
    /\ call.i < call.max_scrolls
    /\ \E read \in PageReads :
          LET collected == IF read.ok
                           THEN call.collected_items \cup Collectable(read.elements)
                           ELSE call.collected_items
              n == Cardinality(collected)
              quiet == IF ~read.ok THEN call.quiet
                       ELSE IF n > Cardinality(call.collected_items) THEN 0
                       ELSE call.quiet + 1
              c1 == [call EXCEPT !.i = @ + 1, !.collected_items = collected,
                                 !.quiet = quiet]
          IN  call' =
                IF ~read.ok THEN c1
                ELSE IF n >= call.target_count THEN [c1 EXCEPT !.pc = "break"]
                ELSE IF n = call.last_count
                THEN [c1 EXCEPT !.stagnant_scrolls = @ + 1,
                                !.pc = IF Stagnated(call.stagnant_scrolls + 1)
                                       THEN "break" ELSE "loop"]
                ELSE [c1 EXCEPT !.stagnant_scrolls = 0, !.last_count = n]
    /\ UNCHANGED <<modelStore, objects, _analyzer, analyzer, pc, got, req, loop, history>>

\* the sequences that list every element of set S once
Listings(S) ==
    {f \in [1..Cardinality(S) -> S] : \A i, j \in 1..Cardinality(S) : f[i] = f[j] => i = j}

\* line 183: the loop has ended or was left; list(collected_items), in the
\* set's arbitrary order
ScrollReturn ==
    /\ call.active /\ call.op = "scroll_and_collect"
    /\ \/ call.pc = "break"
       \/ call.pc = "loop" /\ call.i = call.max_scrolls
    /\ \E out \in Listings(call.collected_items) :
          call' = [call EXCEPT !.pc = "returned", !.out = out]
    /\ UNCHANGED <<modelStore, objects, _analyzer, analyzer, pc, got, req, loop, history>>

\* the caller is done with the list
ScrollDone ==
    /\ call.active /\ call.op = "scroll_and_collect"
    /\ call.pc = "returned"
    /\ call' = NoCall
    /\ UNCHANGED <<modelStore, objects, _analyzer, analyzer, pc, got, req, loop, history>>

NextScroll == ScrollStart \/ ScrollStep \/ ScrollReturn \/ ScrollDone

SpecScroll == InitText /\ [][NextScroll]_vars

\* C19: scroll_and_collect makes at most max_scrolls scroll steps; it leaves
\* the loop earlier exactly when the number of distinct collected items
\* reaches target_count or on the sixth successful read in a row (failed
\* reads aside) that adds no new item, the stagnation counter going back to 0
\* whenever the number grows; the list it returns has no duplicates and only
\* items longer than 5 characters.
C19_ScrollAndCollect ==
    (call.active /\ call.op = "scroll_and_collect") =>
        /\ call.i <= call.max_scrolls
        /\ call.pc = "loop" =>
              /\ Cardinality(call.collected_items) < call.target_count
              /\ call.stagnant_scrolls = call.quiet
              /\ call.quiet <= 5
        /\ call.pc = "break" =>
              \/ Cardinality(call.collected_items) >= call.target_count
              \/ call.quiet = 6
        /\ call.pc = "returned" =>
              /\ \A i, j \in 1..Len(call.out) : call.out[i] = call.out[j] => i = j
              /\ \A i \in 1..Len(call.out) : Len(call.out[i]) > 5
              /\ {call.out[i] : i \in 1..Len(call.out)} = call.collected_items

\* the loop was left on the sixth quiet read, after a read that failed in
\* between, with one item collected and the target not reached; the list
\* was returned
C19_Witness ==
    /\ call.active /\ call.op = "scroll_and_collect"
    /\ call.pc = "returned"
    /\ call.i = 8
    /\ call.quiet = 6
    /\ call.out = << <<"a", "a", "a", "a", "a", "a">> >>
    /\ call.target_count = 2

(***************************************************************************)
(* server.py: POST /api/analyze/bulk, /api/analyze/csv and                 *)
(* /api/analyze/url.  Each behaviour serves one such request after the     *)
(* server's startup; call holds the request, the handler's position and    *)
(* the response.  The handlers run to their awaits of the history insert.  *)
(* A result is recorded by its sentiment and model_used, a history         *)
(* document by its analysis_type, sentiment and model_used, a summary by   *)
(* its total and counts.  The word_frequencies of the body are what        *)
(* get_word_frequencies, above, makes of the texts; the record leaves      *)
(* them out.                                                               *)
(***************************************************************************)
\* line 578: the largest bulk list that is served
MaxBulkTexts == 100

\* line 619: results[:10]
HistorySample == 10

\* lines 657-658: df.head(1000)
CsvRowCap == 1000

\* what TextBlob(text).correct() does in autocorrect_text
AutocorrectOutcomes == {"raises", "same", "respelt"}

\* a respelling by the corrector: it rewrites letters of words and leaves
\* everything else, white space included, as it is
correct(text) == [i \in 1..Len(text) |-> IF text[i] = "i" THEN "a" ELSE text[i]]

\* autocorrect_text
autocorrect_text(text, ac) == IF ac = "respelt" THEN correct(text) ELSE text

\* the answers the collaborators give during one request
BatchEnvironments(self, texts) ==
    [ac : AutocorrectOutcomes,
     tr : IF \E i \in 1..Len(texts) : TranslatorCalled(texts[i])
          THEN TranslatorOutcomes ELSE {Raise},
     no : IF self.model THEN ServedModelOutcomes ELSE {Raise},
     co : IF self.baseline_model THEN ServedModelOutcomes ELSE {Raise},
     vo : IF self.vader_analyzer THEN ServedVaderOutcomes ELSE {Raise}]

\* the loop bodies of the three handlers: autocorrect_text, then
\* analyzer.analyze(corrected_text), for each text in turn
ClassifyAll(self, texts, env) ==
    [i \in 1..Len(texts) |->
        analyze(self, autocorrect_text(texts[i], env.ac), TRUE,
                env.tr, env.no, env.co, env.vo)]

AnyRaised(outs) == \E i \in 1..Len(outs) : outs[i].raised

\* the results list, and the sentiments list beside it
ResultsOf(outs) ==
    [i \in 1..Len(outs) |-> [sentiment |-> outs[i].result.sentiment,
                             model_used |-> outs[i].result.model_used]]

\* list.count, on the sentiments of the results
count(results, label) ==
    Cardinality({i \in 1..Len(results) : results[i].sentiment = label})

\* lines 599-603, 683-687, 758-762: the labels counted differ between the
\* handlers, the neutral count is the literal 0
SentimentCounts(results, pos_label, neg_label) ==
    [positive |-> count(results, pos_label),
     negative |-> count(results, neg_label),
     neutral |-> 0]

Summary(total, sentiment_counts) ==
    [total_analyzed |-> total, sentiment_counts |-> sentiment_counts]

NoSummary == Summary(0, [positive |-> 0, negative |-> 0, neutral |-> 0])

\* an HTTPException leaves the handler: the response has a status and a
\* detail and no body; classified is the number of analyzer.analyze calls
\* the handler made before
Rejected(op, input, status, detail, classified) ==
    [active |-> TRUE, op |-> op, input |-> input, pc |-> "done",
     status |-> status, detail |-> detail, classified |-> classified,
     results |-> <<>>, summary |-> NoSummary, docs |-> <<>>, next |-> 0]

\* the handler has its body and waits for db.analysis_history.insert_one to
\* store docs[next]
Inserting(op, input, results, summary, docs) ==
    [active |-> TRUE, op |-> op, input |-> input, pc |-> "inserting",
     status |-> 0, detail |-> "", classified |-> Len(results),
     results |-> results, summary |-> summary, docs |-> docs, next |-> 1]

\* the handler returns its body
Answered(op, input, results, summary) ==
    [active |-> TRUE, op |-> op, input |-> input, pc |-> "done",
     status |-> 200, detail |-> "", classified |-> Len(results),
     results |-> results, summary |-> summary, docs |-> <<>>, next |-> 0]

HistoryDoc(analysis_type, sentiment, model_used) ==
    [analysis_type |-> analysis_type, sentiment |-> sentiment,
     model_used |-> model_used]

\* seq[:n]
Take(seq, n) == [i \in 1..(IF Len(seq) < n THEN Len(seq) ELSE n) |-> seq[i]]

\* lines 619-627: the history documents of results
DocsOf(results, analysis_type) ==
    [i \in 1..Len(results) |->
        HistoryDoc(analysis_type, results[i].sentiment, results[i].model_used)]

Repeat(text, n) == [i \in 1..n |-> text]

\* the texts lists of bulk requests: short lists, and lists around the sizes
\* the handler distinguishes, of one word followed by blank texts
BulkInputs ==
    UNION {[1..n -> ServedTexts] : n \in 0..MaxBatch}
    \cup {<< <<"h", "i">> >> \o Repeat(<<" ">>, n - 1) :
            n \in {HistorySample + 1, MaxBulkTexts, MaxBulkTexts + 1}}

\* analyze_bulk, up to its first await: the request is answered with an
\* error, or with the body when there is nothing to store, or the handler
\* goes on to store the first ten results
AnalyzeBulk ==
    /\ pc = "serving"
    /\ ~call.active
    /\ \E texts \in BulkInputs :
          IF analyzer = 0
          THEN call' = Rejected("analyze_bulk", texts, 503,
                                "Sentiment analyzer not available", 0)
          ELSE IF Len(texts) > MaxBulkTexts
          THEN call' = Rejected("analyze_bulk", texts, 400,
                                "Maximum 100 texts allowed", 0)
          ELSE \E env \in BatchEnvironments(objects[analyzer], texts) :
               \E outs \in {ClassifyAll(objects[analyzer], texts, env)} :
               IF AnyRaised(outs)
               THEN call' = Rejected("analyze_bulk", texts, 500, "str(e)", Len(texts))
               ELSE \E results \in {ResultsOf(outs)} :
                    LET sentiment_counts ==
                            SentimentCounts(results, "Positive", "Negative")
                        summary == Summary(Len(results), sentiment_counts)
                        docs == DocsOf(Take(results, HistorySample), "bulk")
                    IN  call' = IF Len(results) = 0
                                THEN Answered("analyze_bulk", texts, results, summary)
                                ELSE Inserting("analyze_bulk", texts, results,
                                               summary, docs)
    /\ UNCHANGED <<modelStore, objects, _analyzer, analyzer, pc, got, req, loop, history>>

\* lines 630 and 798: insert_one stores the document and the handler goes
\* on, to the next insert or to its return, or insert_one raises and the
\* handler answers 500
HistoryInsert ==
    /\ call.active
    /\ call.op \in {"analyze_bulk", "analyze_url"}
    /\ call.pc = "inserting"
    /\ \E stored \in BOOLEAN :
          IF stored
          THEN /\ history' = Append(history, call.docs[call.next])
               /\ call' = IF call.next < Len(call.docs)
                          THEN [call EXCEPT !.next = @ + 1]
                          ELSE Answered(call.op, call.input, call.results,
                                        call.summary)
          ELSE /\ call' = Rejected(call.op, call.input, 500, "str(e)",
                                   call.classified)
               /\ UNCHANGED history
    /\ UNCHANGED <<modelStore, objects, _analyzer, analyzer, pc, got, req, loop>>

(***************************************************************************)
(* analyze_csv.  The upload is what pd.read_csv makes of it: an exception, *)
(* or a table, of which the model keeps one column's name and the str() of *)
(* its cells.                                                              *)
(***************************************************************************)
nan == <<"n", "a", "n">>

CsvCells == ServedTexts \cup {nan}

CsvUploads ==
    {[parse |-> e, column |-> "text", cells |-> <<>>] :
        e \in {"EmptyDataError", "ParserError"}}
    \cup {[parse |-> "ok", column |-> c, cells |-> cells] :
            c \in {"text", "review"},
            cells \in UNION {[1..n -> CsvCells] : n \in 0..MaxBatch}
                      \cup {Repeat(nan, CsvRowCap) \o << <<"h", "i">> >>}}

\* lines 709-713: the status the except clauses of analyze_csv give an
\* exception raised in the try block.  HTTPException is an Exception, so the
\* one raised at lines 652-655 is caught by the second clause.
CsvExcept(exception) ==
    IF exception = "EmptyDataError" THEN [status |-> 400, detail |-> "CSV file is empty"]
    ELSE [status |-> 500, detail |-> "str(e)"]

\* lines 657-658
head(cells, n) == IF Len(cells) > n THEN Take(cells, n) ELSE cells

\* line 666: the rows the loop skips
Skipped(text) == text = <<>> \/ text = nan

AnalyzeCsv ==
    /\ pc = "serving"
    /\ ~call.active
    /\ \E file \in CsvUploads :
          IF analyzer = 0
          THEN call' = Rejected("analyze_csv", file, 503,
                                "Sentiment analyzer not available", 0)
          ELSE IF file.parse # "ok"
          THEN call' = Rejected("analyze_csv", file, CsvExcept(file.parse).status,
                                CsvExcept(file.parse).detail, 0)
          ELSE IF file.column # "text"
          THEN call' = Rejected("analyze_csv", file,
                                CsvExcept("HTTPException").status,
                                CsvExcept("HTTPException").detail, 0)
          ELSE LET df == head(file.cells, CsvRowCap)
                   texts == SelectSeq(df, LAMBDA text : ~Skipped(text))
               IN  \E env \in BatchEnvironments(objects[analyzer], texts) :
                   \E outs \in {ClassifyAll(objects[analyzer], texts, env)} :
                   IF AnyRaised(outs)
                   THEN call' = Rejected("analyze_csv", file,
                                         CsvExcept("Exception").status,
                                         CsvExcept("Exception").detail, Len(texts))
                   ELSE \E results \in {ResultsOf(outs)} :
                        LET sentiment_counts ==
                                SentimentCounts(results, "positive", "negative")
                            summary == Summary(Len(results), sentiment_counts)
                        IN  call' = Answered("analyze_csv", file, results, summary)
    /\ UNCHANGED <<modelStore, objects, _analyzer, analyzer, pc, got, req, loop, history>>

(***************************************************************************)
(* analyze_url and fetch_content_from_url.  A URL is the set of the site   *)
(* names the code looks for that occur in it.  scrape_youtube_sync is an   *)
(* input: its call raises, returns None or returns a dict with the         *)
(* comments it found.                                                      *)
(***************************************************************************)
Urls == { {"youtube.com"}, {"youtu.be"}, {"instagram.com"}, {"amazon"},
          {"flipkart"}, {"youtube.com", "amazon"}, {} }

\* line 446
Scrapable(url) ==
    url \cap {"youtube.com", "youtu.be", "instagram.com", "instagr.am",
              "amazon", "flipkart"} # {}

\* line 460
IsYoutube(url) == url \cap {"youtube.com", "youtu.be"} # {}

\* line 465
IsShop(url) == url \cap {"amazon", "flipkart"} # {}

\* comments a scrape can return: each is longer than 5 characters (line 267,
\* where a comment of white space passes, and scroll_and_collect)
ScrapedTexts ==
    { <<"h", "i", " ", "h", "i", "!">>,
      <<"E'", "t", "e", " ", "b", "e", "l", "l", "e">>,
      <<" ", " ", " ", " ", " ", " ">> }

\* list(set(...)): no comment twice
ScrapedLists ==
    {c \in UNION {[1..n -> ScrapedTexts] : n \in 0..MaxBatch} :
        \A i, j \in 1..Len(c) : c[i] = c[j] => i = j}

ScrapeOutcomes ==
    {[kind |-> k, comments |-> <<>>] : k \in {"raises", "None"}}
    \cup {[kind |-> "dict", comments |-> c] : c \in ScrapedLists}

NotScraped == [kind |-> "not called", comments |-> <<>>]

\* lines 466-477 and 479-490: the six reviews and the six comments of the
\* fallback content, abridged; the first comment ends with an emoji
MockReviews ==
    << <<"b", "e", "s", "t">>, <<"f", "e", "l", "l", " ", "a", "p", "a", "r", "t">>,
       <<"f", "i", "n", "e">>, <<"s", "o", " ", "g", "r", "e", "a", "t">>,
       <<"s", "l", "o", "w">>, <<"a", "s", " ", "s", "h", "o", "w", "n">> >>

MockComments ==
    << <<"w", "o", "w", " ", "FIRE">>, <<"w", "h", "e", "r", "e", "?">>,
       <<"t", "o", "o", " ", "r", "a", "w">>, <<"b", "l", "i", "s", "s">>,
       <<"a", "p", "t">>, <<"a", "l", "a", "s">> >>

\* variant of fetch_content_from_url: the shop branch is tested before the
\* YouTube branch
fetch_content_from_url_shop_first(url, scrape) ==
    IF Scrapable(url) /\ scrape.kind = "dict"
    THEN [raised |-> FALSE, mock |-> FALSE, texts |-> scrape.comments]
    ELSE IF IsShop(url)
    THEN [raised |-> FALSE, mock |-> TRUE, texts |-> MockReviews]
    ELSE IF IsYoutube(url)
    THEN [raised |-> TRUE, mock |-> FALSE, texts |-> <<>>]
    ELSE [raised |-> FALSE, mock |-> TRUE, texts |-> MockComments]

\* fetch_content_from_url: it raises HTTPException(503) or returns content,
\* of which texts is content.get("comments") or content.get("reviews") or []
fetch_content_from_url(url, scrape) ==
    IF Scrapable(url) /\ scrape.kind = "dict"
    THEN [raised |-> FALSE, mock |-> FALSE, texts |-> scrape.comments]
    ELSE IF IsYoutube(url)
    THEN [raised |-> TRUE, mock |-> FALSE, texts |-> <<>>]
    ELSE IF IsShop(url)
    THEN [raised |-> FALSE, mock |-> TRUE, texts |-> MockReviews]
    ELSE [raised |-> FALSE, mock |-> TRUE, texts |-> MockComments]

\* lines 784-786
Overall(sentiment_counts) ==
    IF sentiment_counts.positive > sentiment_counts.negative THEN "Positive"
    ELSE IF sentiment_counts.negative > sentiment_counts.positive THEN "Negative"
    ELSE "Mixed"

\* analyze_url, up to its await of the history insert
AnalyzeUrl ==
    /\ pc = "serving"
    /\ ~call.active
    /\ \E url \in Urls :
          IF analyzer = 0
          THEN call' = Rejected("analyze_url", [url |-> url, scrape |-> NotScraped],
                                503, "Sentiment analyzer not available", 0)
          ELSE \E scrape \in IF Scrapable(url) THEN ScrapeOutcomes ELSE {NotScraped} :
               LET input == [url |-> url, scrape |-> scrape]
                   content == fetch_content_from_url(url, scrape)
                   texts == content.texts
               IN  IF content.raised
                   THEN call' = Rejected("analyze_url", input, 503,
                                         "Could not scrape video comments", 0)
                   ELSE IF texts = <<>>
                   THEN call' = Answered("analyze_url", input, <<>>, NoSummary)
                   ELSE \E env \in BatchEnvironments(objects[analyzer], texts) :
                        \E outs \in {ClassifyAll(objects[analyzer], texts, env)} :
                        IF AnyRaised(outs)
                        THEN call' = Rejected("analyze_url", input, 500, "str(e)",
                                              Len(texts))
                        ELSE \E results \in {ResultsOf(outs)} :
                             LET sentiment_counts ==
                                     SentimentCounts(results, "Positive", "Negative")
                                 summary_stats == Summary(Len(results), sentiment_counts)
                                 doc == HistoryDoc("url", Overall(sentiment_counts),
                                                   "Transformer")
                             IN  call' = Inserting("analyze_url", input, results,
                                                   summary_stats, <<doc>>)
    /\ UNCHANGED <<modelStore, objects, _analyzer, analyzer, pc, got, req, loop, history>>

NextBatch ==
    ServerInit \/ AnalyzeBulk \/ AnalyzeCsv \/ AnalyzeUrl \/ HistoryInsert

SpecBatch == Init /\ [][NextBatch]_vars

(***************************************************************************)
(* Properties of the batch endpoints (checked under SpecBatch, where the   *)
(* history store is empty when the request arrives)                        *)
(***************************************************************************)
BatchOps == {"analyze_bulk", "analyze_csv", "analyze_url"}

\* the request was answered with status 200
Succeeded == call.active /\ call.op \in BatchOps /\ call.pc = "done" /\ call.status = 200

\* C11: after a successful bulk, CSV or URL request the history store holds
\* a record for each text that was classified in the request, with the
\* sentiment and the tier of its result.
C11_EveryAnalysisPersisted ==
    Succeeded =>
        /\ Len(history) = call.classified
        /\ \A i \in 1..Len(call.results) :
              /\ history[i].sentiment = call.results[i].sentiment
              /\ history[i].model_used = call.results[i].model_used

\* C17: a CSV upload that parses to a table without a 'text' column, sent to
\* a server whose analyzer is loaded, is answered with status 400 and the
\* detail "CSV must contain 'text' column", and no row is analysed.
C17_CsvWithoutTextColumn ==
    (/\ call.active /\ call.op = "analyze_csv" /\ call.pc = "done"
     /\ analyzer # 0
     /\ call.input.parse = "ok" /\ call.input.column # "text") =>
        /\ call.status = 400
        /\ call.detail = "CSV must contain 'text' column"
        /\ call.classified = 0

\* C18: in the summary of a successful bulk, CSV or URL request the
\* positive, negative and neutral counts are the numbers of results labelled
\* Positive, Negative and Neutral, and they sum to total_analyzed.
C18_CountsAgreeWithResults ==
    Succeeded =>
        LET sentiment_counts == call.summary.sentiment_counts
        IN  /\ sentiment_counts.positive = count(call.results, "Positive")
            /\ sentiment_counts.negative = count(call.results, "Negative")
            /\ sentiment_counts.neutral = count(call.results, "Neutral")
            /\ sentiment_counts.positive + sentiment_counts.negative
                   + sentiment_counts.neutral = call.summary.total_analyzed

\* C20: a bulk request with more than 100 texts is answered with status 400,
\* with no text classified and nothing written to the history store; a bulk
\* request with at most 100 texts is never answered with status 400.
C20_BulkSizeLimit ==
    (call.active /\ call.op = "analyze_bulk") =>
        /\ Len(call.input) > MaxBulkTexts =>
              /\ call.status = 400
              /\ call.classified = 0
              /\ history = <<>>
        /\ Len(call.input) <= MaxBulkTexts => call.status # 400

\* the scrape of the request's URL was tried and gave nothing: the worker
\* raised or scrape_youtube_sync returned None
ScrapeFailed ==
    call.active /\ call.op = "analyze_url"
    /\ call.input.scrape.kind \in {"raises", "None"}

\* C21: a request for a YouTube URL whose scrape fails is answered with
\* status 503, with no results in the response, no text classified and no
\* history record written; and no request for a YouTube URL gets the
\* fallback reviews or comments: what it classifies are the comments the
\* scrape returned.
C21_YoutubeScrapeFailure ==
    (call.active /\ call.op = "analyze_url" /\ IsYoutube(call.input.url)) =>
        /\ ScrapeFailed =>
              /\ call.pc = "done"
              /\ call.status = 503
              /\ call.results = <<>>
              /\ call.classified = 0
              /\ history = <<>>
        /\ ~fetch_content_from_url(call.input.url, call.input.scrape).mock
        /\ call.classified > 0 =>
              /\ call.input.scrape.kind = "dict"
              /\ call.classified = Len(call.input.scrape.comments)

\* the scrape of a URL that names both YouTube and a shop returned None, and
\* the request was answered 503
C21_Witness ==
    /\ ScrapeFailed
    /\ call.input.url = {"youtube.com", "amazon"}
    /\ call.input.scrape.kind = "None"
    /\ call.pc = "done"
    /\ call.status = 503

====
